---- MODULE Spec2Model ----
(***************************************************************************)
(* A model of the one-dimensional PISO flow solvers: the second program of *)
(* src/PISO.cpp and the program of src/unnamed/part_000.  Of the SIMPLEC   *)
(* program that src/PISO.cpp starts with, the model has the loop that      *)
(* assembles the pressure correction.                                      *)
(*                                                                         *)
(* The programs compute in IEEE-754 binary floating point (C++ double).    *)
(* The model keeps that arithmetic, at reduced width: a number is NaN, an  *)
(* infinity, a signed zero or (-1)^sgn * man * 2^ex with a mantissa of     *)
(* MantBits bits and an exponent of bounded range, and every operation     *)
(* rounds its exact result to nearest, ties to even, overflowing to an     *)
(* infinity and underflowing gradually to zero, as the hardware does.      *)
(***************************************************************************)
EXTENDS Integers, Sequences, FiniteSets, TLC

(***************************************************************************)
(* Bounds of the model.                                                    *)
(***************************************************************************)
\* width of the mantissa of a floating-point number (53 for a double)
MantBits == 4
\* largest exponent of a number man * 2^ex; the smallest is -ExpMax
ExpMax == 40

ExpMin == 0 - ExpMax

(***************************************************************************)
(* Floating-point numbers.                                                 *)
(***************************************************************************)
Pow2(n) == 2 ^ n

Max(x, y) == IF x >= y THEN x ELSE y
Min(x, y) == IF x <= y THEN x ELSE y

RECURSIVE BitLen(_)
BitLen(M) == IF M = 0 THEN 0 ELSE 1 + BitLen(M \div 2)

Fin(s, M, E) == [cls |-> "fin", sgn |-> s, man |-> M, ex |-> E]
Zero(s) == Fin(s, 0, 0)
Inf(s) == [cls |-> "inf", sgn |-> s, man |-> 0, ex |-> 0]
NaN == [cls |-> "nan", sgn |-> 0, man |-> 0, ex |-> 0]

IsNaN(x) == x.cls = "nan"
IsInf(x) == x.cls = "inf"
IsFinite(x) == x.cls = "fin"
IsZero(x) == x.cls = "fin" /\ x.man = 0

\* The floating-point number nearest to (-1)^s * (M + f) * 2^E, where f = 0
\* when st = 0 and 0 < f < 1 when st = 1 (a sticky bit): round to nearest,
\* ties to even, gradual underflow, overflow to infinity.
Round(s, M, E, st) ==
    IF M = 0 THEN Zero(s)
    ELSE LET nb == BitLen(M)
             sh == Max(nb - MantBits, ExpMin - E)
         IN  IF sh <= 0
             THEN LET l == Min(MantBits - nb, E - ExpMin)
                  IN  IF E - l > ExpMax THEN Inf(s) ELSE Fin(s, M * Pow2(l), E - l)
             ELSE IF sh > nb + 1 THEN Zero(s)
             ELSE LET q  == M \div Pow2(sh)
                      r  == M % Pow2(sh)
                      h  == Pow2(sh - 1)
                      up == r > h \/ (r = h /\ (st = 1 \/ q % 2 = 1))
                      q1 == IF up THEN q + 1 ELSE q
                      ov == q1 = Pow2(MantBits)
                      q2 == IF ov THEN q1 \div 2 ELSE q1
                      e2 == IF ov THEN E + sh + 1 ELSE E + sh
                  IN  IF q2 = 0 THEN Zero(s)
                      ELSE IF e2 > ExpMax THEN Inf(s)
                      ELSE Fin(s, q2, e2)

\* a decimal literal num/den of the source (0 < den < 2^30), converted as the
\* compiler does: the quotient is developed bit by bit until it is exact or
\* has two bits more than a mantissa, then rounded once
RECURSIVE LitStep(_, _, _, _, _)
LitStep(s, q, rem, den, E) ==
    IF rem = 0 \/ BitLen(q) >= MantBits + 2
    THEN Round(s, q, E, IF rem = 0 THEN 0 ELSE 1)
    ELSE IF 2 * rem >= den
         THEN LitStep(s, 2 * q + 1, 2 * rem - den, den, E - 1)
         ELSE LitStep(s, 2 * q, 2 * rem, den, E - 1)

lit(num, den) ==
    LET an == IF num < 0 THEN 0 - num ELSE num
    IN  LitStep(IF num < 0 THEN 1 ELSE 0, an \div den, an % den, den, 0)

fneg(x) == IF IsNaN(x) THEN NaN ELSE [x EXCEPT !.sgn = 1 - x.sgn]
fabs(x) == IF IsNaN(x) THEN NaN ELSE [x EXCEPT !.sgn = 0]

\* |x| < |y| for finite x, y
MagLt(x, y) ==
    IF y.man = 0 THEN FALSE
    ELSE IF x.man = 0 THEN TRUE
    ELSE x.ex < y.ex \/ (x.ex = y.ex /\ x.man < y.man)

\* |x| < |y| for x, y that are no NaN
MagLtInf(x, y) ==
    IF IsInf(x) THEN FALSE
    ELSE IF IsInf(y) THEN TRUE
    ELSE MagLt(x, y)

IsNeg(x) == x.sgn = 1 /\ ~IsZero(x)

\* the comparisons of C++: every comparison with a NaN is false
flt(x, y) ==
    IF IsNaN(x) \/ IsNaN(y) THEN FALSE
    ELSE IF IsNeg(x) /\ ~IsNeg(y) THEN TRUE
    ELSE IF ~IsNeg(x) /\ IsNeg(y) THEN FALSE
    ELSE IF IsNeg(x) THEN MagLtInf(y, x)
    ELSE MagLtInf(x, y)
feq(x, y) ==
    IF IsNaN(x) \/ IsNaN(y) THEN FALSE
    ELSE (IsZero(x) /\ IsZero(y)) \/ x = y
fge(x, y) == flt(y, x) \/ feq(x, y)
fle(x, y) == flt(x, y) \/ feq(x, y)

\* x + y
fadd(x, y) ==
    IF IsNaN(x) \/ IsNaN(y) THEN NaN
    ELSE IF IsInf(x) THEN (IF IsInf(y) /\ y.sgn # x.sgn THEN NaN ELSE x)
    ELSE IF IsInf(y) THEN y
    ELSE IF IsZero(x) THEN (IF IsZero(y) THEN Zero(IF x.sgn = 1 /\ y.sgn = 1 THEN 1 ELSE 0) ELSE y)
    ELSE IF IsZero(y) THEN x
    ELSE LET big == IF MagLt(x, y) THEN y ELSE x
             sml == IF MagLt(x, y) THEN x ELSE y
             d   == big.ex - sml.ex
         IN  IF d > MantBits + 1 THEN big
             ELSE LET B == big.man * Pow2(d)
                      S == IF big.sgn = sml.sgn THEN B + sml.man ELSE B - sml.man
                  IN  IF S = 0 THEN Zero(0) ELSE Round(big.sgn, S, sml.ex, 0)

\* x * y
fmul(x, y) ==
    IF IsNaN(x) \/ IsNaN(y) THEN NaN
    ELSE LET s == IF x.sgn = y.sgn THEN 0 ELSE 1
         IN  IF IsInf(x) \/ IsInf(y)
             THEN (IF IsZero(x) \/ IsZero(y) THEN NaN ELSE Inf(s))
             ELSE IF IsZero(x) \/ IsZero(y) THEN Zero(s)
             ELSE Round(s, x.man * y.man, x.ex + y.ex, 0)

\* x / y
fdiv(x, y) ==
    IF IsNaN(x) \/ IsNaN(y) THEN NaN
    ELSE LET s == IF x.sgn = y.sgn THEN 0 ELSE 1
         IN  IF IsInf(x) THEN (IF IsInf(y) THEN NaN ELSE Inf(s))
             ELSE IF IsInf(y) THEN Zero(s)
             ELSE IF IsZero(y) THEN (IF IsZero(x) THEN NaN ELSE Inf(s))
             ELSE IF IsZero(x) THEN Zero(s)
             ELSE LET nl == MantBits - BitLen(x.man)
                      sc == MantBits + 1
                      xs == x.man * Pow2(nl + sc)
                      q  == xs \div y.man
                      r  == xs % y.man
                  IN  Round(s, q, x.ex - y.ex - nl - sc, IF r = 0 THEN 0 ELSE 1)

\* std::max(x, y) is (x < y) ? y : x
fmax(x, y) == IF flt(x, y) THEN y ELSE x

\* the integer square root of M, developed from the bit b downwards
RECURSIVE ISqrt(_, _, _)
ISqrt(M, r, b) ==
    IF b = 0 THEN r
    ELSE IF (r + b) * (r + b) <= M THEN ISqrt(M, r + b, b \div 2)
    ELSE ISqrt(M, r, b \div 2)

\* std::pow(x, 0.5)
fpowhalf(x) ==
    IF IsNaN(x) THEN NaN
    ELSE IF IsZero(x) THEN Zero(0)
    ELSE IF IsInf(x) THEN Inf(0)
    ELSE IF x.sgn = 1 THEN NaN
    ELSE LET nl  == MantBits - BitLen(x.man)
             odd == (x.ex - nl - MantBits - 1) % 2
             sc  == nl + MantBits + 1 + odd
             M   == x.man * Pow2(sc)
             r   == ISqrt(M, 0, Pow2(MantBits))
         IN  Round(0, r, (x.ex - sc) \div 2, IF r * r = M THEN 0 ELSE 1)

\* std::sqrt(x)
fsqrt(x) == IF IsZero(x) \/ (IsInf(x) /\ x.sgn = 1) THEN (IF IsZero(x) THEN x ELSE NaN) ELSE fpowhalf(x)

\* std::floor(x)
ffloor(x) ==
    IF ~IsFinite(x) \/ IsZero(x) \/ x.ex >= 0 THEN x
    ELSE IF 0 - x.ex > BitLen(x.man)
         THEN (IF x.sgn = 1 THEN Fin(1, Pow2(MantBits - 1), 1 - MantBits) ELSE Zero(0))
    ELSE LET den == Pow2(0 - x.ex)
         IN  IF x.sgn = 1 THEN Round(1, (x.man + den - 1) \div den, 0, 0)
             ELSE Round(0, x.man \div den, 0, 0)

\* an int converted to double
intf(n) == Round(IF n < 0 THEN 1 ELSE 0, IF n < 0 THEN 0 - n ELSE n, 0, 0)

LN2 == lit(693147, 1000000)

\* std::log(x): NaN below zero, -infinity at zero; for a positive number the
\* logarithm to base 2 is taken as exponent plus the linear part of the
\* mantissa, rounded, and scaled by ln 2
flog(x) ==
    IF IsNaN(x) THEN NaN
    ELSE IF IsZero(x) THEN Inf(1)
    ELSE IF x.sgn = 1 THEN NaN
    ELSE IF IsInf(x) THEN Inf(0)
    ELSE LET nb == BitLen(x.man)
             I  == (x.ex + nb - 1) * Pow2(nb - 1) + x.man - Pow2(nb - 1)
         IN  fmul(Round(IF I < 0 THEN 1 ELSE 0, IF I < 0 THEN 0 - I ELSE I, 1 - nb, 0), LN2)

\* 2^y: the power of the integer part of y times one plus its fractional
\* part, rounded
fexp2(y) ==
    IF IsNaN(y) THEN NaN
    ELSE IF IsInf(y) \/ (~IsZero(y) /\ y.ex + BitLen(y.man) > 12)
    THEN (IF y.sgn = 1 THEN Zero(0) ELSE Inf(0))
    ELSE IF IsZero(y) \/ y.ex < 0 - (2 * MantBits + 2) THEN Fin(0, Pow2(MantBits - 1), 1 - MantBits)
    ELSE IF y.ex >= 0
    THEN Round(0, 1, IF y.sgn = 1 THEN 0 - y.man * Pow2(y.ex) ELSE y.man * Pow2(y.ex), 0)
    ELSE LET den == Pow2(0 - y.ex)
             ip  == IF y.sgn = 1 THEN 0 - ((y.man + den - 1) \div den) ELSE y.man \div den
             fn  == IF y.sgn = 1 THEN (0 - ip) * den - y.man ELSE y.man % den
         IN  Round(0, den + fn, ip + y.ex, 0)

(***************************************************************************)
(* Expressions.  An arithmetic expression of the source is written with    *)
(* the operators below, which build it; Eval computes its value, operation *)
(* by operation, each one rounded.                                         *)
(***************************************************************************)
\* a literal num/den of the source, and an int converted to double
Lit(num, den) == [op |-> "lit", num |-> num, den |-> den]
IntF(n) == [op |-> "int", n |-> n]
LOG2E == Lit(1442695, 1000000)
FNeg(x) == [op |-> "neg", l |-> x]
FAbs(x) == [op |-> "abs", l |-> x]
FAdd(x, y) == [op |-> "add", l |-> x, r |-> y]
FSub(x, y) == FAdd(x, FNeg(y))
FMul(x, y) == [op |-> "mul", l |-> x, r |-> y]
FDiv(x, y) == [op |-> "div", l |-> x, r |-> y]
FMax(x, y) == [op |-> "max", l |-> x, r |-> y]
FPowHalf(x) == [op |-> "powhalf", l |-> x]
FSqrt(x) == [op |-> "sqrt", l |-> x]
FFloor(x) == [op |-> "floor", l |-> x]
FLog(x) == [op |-> "log", l |-> x]
\* std::exp(x) is 2^(x * log2(e))
FExp(x) == [op |-> "exp2", l |-> FMul(x, LOG2E)]

Apply1(op, a) ==
    CASE op = "neg" -> fneg(a)
      [] op = "abs" -> fabs(a)
      [] op = "powhalf" -> fpowhalf(a)
      [] op = "sqrt" -> fsqrt(a)
      [] op = "floor" -> ffloor(a)
      [] op = "log" -> flog(a)
      [] op = "exp2" -> fexp2(a)

Apply2(op, a, b) ==
    CASE op = "add" -> fadd(a, b)
      [] op = "mul" -> fmul(a, b)
      [] op = "div" -> fdiv(a, b)
      [] op = "max" -> fmax(a, b)

\* (x < y) ? a : b and the like
IfLt(x, y, a, b) == [op |-> "sel", rel |-> "lt", l |-> x, r |-> y, t |-> a, f |-> b]
IfGe(x, y, a, b) == [op |-> "sel", rel |-> "ge", l |-> x, r |-> y, t |-> a, f |-> b]
\* a selection on x < y where x > y is meant
IfGt_lt(x, y, a, b) == IfLt(x, y, a, b)
IfGt(x, y, a, b) == IfLt(y, x, a, b)
IfLe(x, y, a, b) == IfGe(y, x, a, b)

Compare(rel, a, b) == IF rel = "lt" THEN flt(a, b) ELSE fge(a, b)

RECURSIVE Eval(_)
Eval(e) ==
    IF "cls" \in DOMAIN e THEN e
    ELSE IF e.op = "lit" THEN lit(e.num, e.den)
    ELSE IF e.op = "int" THEN intf(e.n)
    ELSE IF e.op = "sel"
    THEN IF \E a \in {Eval(e.l)}, b \in {Eval(e.r)} : Compare(e.rel, a, b) THEN Eval(e.t) ELSE Eval(e.f)
    ELSE IF "r" \in DOMAIN e
    THEN CHOOSE v \in {Apply2(e.op, a, b) : a \in {Eval(e.l)}, b \in {Eval(e.r)}} : TRUE
    ELSE CHOOSE v \in {Apply1(e.op, a) : a \in {Eval(e.l)}} : TRUE

\* the value of an expression, of each expression of a vector, and of each
\* expression of each vector of a record
Val(e) == CHOOSE v \in {Eval(x) : x \in {e}} : TRUE
Vals(r) == CHOOSE v \in {[j \in DOMAIN x |-> Val(x[j])] : x \in {r}} : TRUE
Matrix(m) == CHOOSE v \in {[f \in DOMAIN x |-> Vals(x[f])] : x \in {m}} : TRUE

\* the comparisons of two expressions
FLt(x, y) == \E v \in {Vals(<<x, y>>)} : flt(v[1], v[2])
FGt(x, y) == FLt(y, x)
FEq(x, y) == \E v \in {Vals(<<x, y>>)} : feq(v[1], v[2])
FGe(x, y) == \E v \in {Vals(<<x, y>>)} : fge(v[1], v[2])
FLe(x, y) == FGe(y, x)

(***************************************************************************)
(* solveTridiagonal: the Thomas algorithm.  The four vectors are functions *)
(* on 0..n-1; a[0] and c[n-1] lie outside the matrix.                      *)
(***************************************************************************)
\* a forward sweep that adds where the algorithm subtracts
sweep_row_plus(a, b, c, d, i, cs, ds) ==
    LET m == FAdd(b[i], FMul(a[i], cs[i - 1]))
    IN  Vals(IF i = 0 THEN <<FDiv(c[0], b[0]), FDiv(d[0], b[0])>>
             ELSE <<FDiv(c[i], m), FDiv(FSub(d[i], FMul(a[i], ds[i - 1])), m)>>)

\* row i of the forward sweep: <<c_star[i], d_star[i]>>
sweep_row(a, b, c, d, i, cs, ds) ==
    LET m == FSub(b[i], FMul(a[i], cs[i - 1]))
    IN  Vals(IF i = 0 THEN <<FDiv(c[0], b[0]), FDiv(d[0], b[0])>>
             ELSE <<FDiv(c[i], m), FDiv(FSub(d[i], FMul(a[i], ds[i - 1])), m)>>)

\* the forward sweep from row i on; cs and ds are c_star and d_star
RECURSIVE forward_sweep(_, _, _, _, _, _, _)
forward_sweep(a, b, c, d, i, cs, ds) ==
    IF i = Cardinality(DOMAIN b) THEN <<cs, ds>>
    ELSE CHOOSE r \in {forward_sweep(a, b, c, d, i + 1, [cs EXCEPT ![i] = row[1]],
                                     [ds EXCEPT ![i] = row[2]]) :
                          row \in {sweep_row(a, b, c, d, i, cs, ds)}} : TRUE

\* the back substitution from row i down
RECURSIVE back_substitution(_, _, _, _)
back_substitution(cs, ds, i, x) ==
    IF i < 0 THEN x
    ELSE CHOOSE r \in {back_substitution(cs, ds, i - 1, [x EXCEPT ![i] = xi]) :
                          xi \in {Val(IF i = Cardinality(DOMAIN x) - 1 THEN ds[i]
                                      ELSE FSub(ds[i], FMul(cs[i], x[i + 1])))}} : TRUE

\* the algorithm on the vectors a, b, c, d
thomas(a, b, c, d) ==
    CHOOSE x \in {back_substitution(cd[1], cd[2], Cardinality(DOMAIN b) - 1, [i \in DOMAIN b |-> Zero(0)]) :
                     cd \in {forward_sweep(a, b, c, d, 0, [i \in DOMAIN b |-> Zero(0)],
                                           [i \in DOMAIN b |-> Zero(0)])}} : TRUE

solveTridiagonal(a, b, c, d) ==
    CHOOSE x \in {thomas(pa, pb, pc, pd) : pa \in {a}, pb \in {b}, pc \in {c}, pd \in {d}} : TRUE

(***************************************************************************)
(* liquid_sodium: the thermophysical properties.                           *)
(***************************************************************************)
Tcrit == Lit(250946, 100)
Tsolid == Lit(37087, 100)

\* "Warning, temperature ... is below solidification temperature!" is printed
warns(Tk) == FLt(Tk, Tsolid)

\* whether a property function of program v prints the warning for the temperature Tk:
\* the functions of part_000 have no test and print nothing
warned(v, Tk) == v = "PISO_cpp" /\ warns(Tk)

rho(Tk) ==
    LET w == FSub(Lit(1, 1), FDiv(Tk, Tcrit))
    IN  FAdd(FAdd(Lit(219, 1), FMul(Lit(27532, 100), w)), FMul(Lit(51158, 100), FPowHalf(w)))

k(Tk) ==
    FSub(FAdd(FSub(Lit(12467, 100), FMul(Lit(11381, 100000), Tk)),
              FMul(FMul(FMul(Lit(55226, 10000), Lit(1, 100000)), Tk), Tk)),
         FMul(FMul(FMul(FMul(Lit(11842, 10000), Lit(1, 100000000)), Tk), Tk), Tk))

cp(Tk) ==
    LET dXT == FSub(Tk, Lit(27315, 100))
    IN  FAdd(FSub(Lit(143672, 100), FMul(Lit(58, 100), dXT)),
             FMul(FMul(Lit(4627, 10000000), dXT), dXT))

mu(Tk) ==
    FExp(FAdd(FSub(Lit(-64406, 10000), FMul(Lit(3958, 10000), FLog(Tk))),
              FDiv(Lit(556835, 1000), Tk)))

(***************************************************************************)
(* The PISO programs: the second program of src/PISO.cpp ("PISO_cpp") and  *)
(* src/unnamed/part_000 ("part_000").  They differ in their constants, in  *)
(* the diffusion coefficient of the momentum equation, in the scaling of   *)
(* the continuity equation and in the energy equation.                     *)
(***************************************************************************)
Variants == {"PISO_cpp", "part_000"}

\* number of nodes N of the grid (1000 and 100 in the programs)
N == 5
\* number of timesteps t_iter (10000 and 1000 in the programs)
t_iter == 2
\* inner iterations per step tot_iter (200 in the programs)
tot_iter == 5
\* PISO correctors per iteration
corr_iter == 2

Idx == 0..(N - 1)
Interior == 1..(N - 2)

One == Lit(1, 1)
Half == Lit(5, 10)
L == Lit(1, 1)
dz == FDiv(L, IntF(N - 1))
K == Lit(1, 1000000)
CF == Zero(0)
rhie_chow_on_off == 1
u_inlet == Zero(0)
u_outlet == Zero(0)
p_outlet == Lit(50000, 1)
T_inlet == Lit(300, 1)
T_outlet == Lit(100, 1)
mass_source_zone == Lit(2, 10)
mass_sink_zone == Lit(2, 10)
energy_source_zone == Lit(2, 10)
energy_sink_zone == Lit(2, 10)

T_init(v) == IF v = "PISO_cpp" THEN Lit(600, 1) ELSE Lit(200, 1)
dt(v) == IF v = "PISO_cpp" THEN Lit(1, 10) ELSE Lit(1, 1000)
\* the magnitude of the energy source
St_mag(v) == IF v = "PISO_cpp" THEN Lit(1000000, 1) ELSE Lit(1, 1)

\* a vector of length N filled with x
Vec(x) == [i \in Idx |-> x]

\* a source vector: +mag on the first nodes, -mag on the last ones
Zone(src_zone, sink_zone, mag) ==
    LET src_nodes  == FFloor(FMul(IntF(N), src_zone))
        sink_nodes == FFloor(FMul(IntF(N), sink_zone))
    IN  [i \in Idx |->
            IF i > 0 /\ i < N - 1
            THEN IfLe(IntF(i), src_nodes, mag,
                      IfGe(IntF(i), FSub(IntF(N), sink_nodes), FNeg(mag), Zero(0)))
            ELSE Zero(0)]

Sm == Zone(mass_source_zone, mass_sink_zone, One)
Su == Vec(Zero(0))
St(v) == Zone(energy_source_zone, energy_sink_zone, St_mag(v))

\* bU starts from zero
bU_seed_zero(v) == Zero(0)

\* the seed of bU
bU_seed(v) == FAdd(FDiv(FMul(rho(T_init(v)), dz), dt(v)), FDiv(FMul(IntF(2), mu(T_init(v))), dz))

\* tolerance for the inner iterations
tol == Lit(1, 100000000)

VARIABLES
    variant,    \* which program runs
    pc,         \* the stage about to run
    it,         \* index of the timestep
    iter,       \* inner iterations done in this timestep
    piso,       \* correctors done in this inner iteration
    maxErr,     \* residual
    u, p, T,    \* velocity, pressure, temperature
    p_storage,  \* pressure with one ghost node at each end; p_padded[i] is p_storage[i + 1]
    T_old, p_old,
    p_prime,
    aU, bU, cU, dU,
    aP, bP, cP, dP,
    aXT, bXT, cXT, dXT,
    wpc,        \* momentum loop: where the iteration of each interior cell stands
    seen,       \* momentum loop: the elements of bU each iteration has read
    fout,       \* what has been written to the output file
    hist,       \* history: the stages completed so far in this timestep
    bU_prev,    \* history: bU as it was when the momentum loop was entered
    sys,        \* a call of solveTridiagonal on its own: the arguments a, b, c, d
    sol         \* a call of solveTridiagonal on its own: the vector returned

config == <<variant>>
workers == <<wpc, seen>>
call == <<sys, sol>>
fields == <<u, p, T, p_storage, T_old, p_old, p_prime>>
momentum == <<aU, bU, cU, dU>>
continuity == <<aP, bP, cP, dP>>
energy == <<aXT, bXT, cXT, dXT>>
vars == <<config, pc, it, iter, piso, maxErr, fields, momentum, continuity, energy, workers, fout, hist,
          bU_prev, call>>

p_padded(i) == p_storage[i + 1]

(***************************************************************************)
(* Face velocities with the Rhie and Chow correction; bb is the vector bU  *)
(* as the reader sees it.                                                  *)
(***************************************************************************)
rhie_chow_l(i, bb) ==
    FMul(FDiv(FNeg(FAdd(FDiv(One, bb[i - 1]), FDiv(One, bb[i]))), FMul(IntF(8), dz)),
         FSub(FAdd(FSub(p_padded(i - 2), FMul(IntF(3), p_padded(i - 1))),
                   FMul(IntF(3), p_padded(i))),
              p_padded(i + 1)))

\* a correction of the right face that takes the pressures of the left face
rhie_chow_r_left(i, bb) ==
    FMul(FDiv(FNeg(FAdd(FDiv(One, bb[i + 1]), FDiv(One, bb[i]))), FMul(IntF(8), dz)),
         FSub(FAdd(FSub(p_padded(i - 2), FMul(IntF(3), p_padded(i - 1))),
                   FMul(IntF(3), p_padded(i))),
              p_padded(i + 1)))

rhie_chow_r(i, bb) ==
    FMul(FDiv(FNeg(FAdd(FDiv(One, bb[i + 1]), FDiv(One, bb[i]))), FMul(IntF(8), dz)),
         FSub(FAdd(FSub(p_padded(i - 1), FMul(IntF(3), p_padded(i))),
                   FMul(IntF(3), p_padded(i + 1))),
              p_padded(i + 2)))

u_l_face(i, bb) == FAdd(FMul(Half, FAdd(u[i - 1], u[i])), FMul(IntF(rhie_chow_on_off), rhie_chow_l(i, bb)))
u_r_face(i, bb) == FAdd(FMul(Half, FAdd(u[i], u[i + 1])), FMul(IntF(rhie_chow_on_off), rhie_chow_r(i, bb)))

(***************************************************************************)
(* Momentum predictor.                                                     *)
(***************************************************************************)
\* abs(u[i]), called without std:: on a double.  Where <cmath> declares the overloads
\* of abs in the global namespace the call is fabs; where it does not, the call is
\* abs(int) of <stdlib.h> on the argument converted to int, and the conversion of a
\* value that no int holds is undefined: it may leave any int, zero or not.
abs_outcomes(x) ==
    {fabs(x)} \cup (IF IsFinite(x) /\ flt(fabs(x), fmul(intf(65536), intf(32768)))
                    THEN {ffloor(fabs(x))}
                    ELSE {Zero(0), intf(-1)})

\* the coefficients of cell i, with absu for abs(u[i])
MomentumCell(i, bb, absu) ==
    LET rho_P == rho(T[i])
        rho_L == rho(T[i - 1])
        rho_R == rho(T[i + 1])
        mu_P  == mu(T[i])
        mu_L  == mu(T[i - 1])
        mu_R  == mu(T[i + 1])
        D_l   == IF variant = "PISO_cpp" THEN FDiv(FMul(Half, FAdd(mu_P, mu_L)), dz)
                 ELSE FDiv(FMul(Half, FAdd(rho_P, rho_L)), dz)
        D_r   == IF variant = "PISO_cpp" THEN FDiv(FMul(Half, FAdd(mu_P, mu_R)), dz)
                 ELSE FDiv(FMul(Half, FAdd(rho_P, rho_R)), dz)
        ul    == u_l_face(i, bb)
        ur    == u_r_face(i, bb)
        rho_l == IfGe(ul, Zero(0), rho_L, rho_P)
        rho_r == IfGe(ur, Zero(0), rho_P, rho_R)
        F_l   == FMul(rho_l, ul)
        F_r   == FMul(rho_r, ur)
    IN  [aU |-> FSub(FNeg(FMax(F_l, Zero(0))), D_l),
         cU |-> FSub(FMax(FNeg(F_r), Zero(0)), D_r),
         bU |-> FAdd(FAdd(FAdd(FAdd(FAdd(FSub(FMax(F_r, Zero(0)), FMax(FNeg(F_l), Zero(0))),
                                         FDiv(FMul(rho_P, dz), dt(variant))),
                                    D_l),
                               D_r),
                          FMul(FDiv(mu_P, K), dz)),
                     FMul(FDiv(FMul(FMul(CF, mu_P), dz), FSqrt(K)), absu)),
         dU |-> FAdd(FAdd(FMul(FNeg(Half), FSub(p[i + 1], p[i - 1])),
                          FDiv(FMul(FMul(rho_P, u[i]), dz), dt(variant))),
                     FMul(Su[i], dz)),
         F_l |-> F_l,
         F_r |-> F_r]

\* the elements of bU that the iteration of cell i reads
bU_read(i) == [j \in {i - 1, i, i + 1} |-> bU[j]]

\* an iteration that has read nothing yet
nothing == [j \in {} |-> Zero(0)]

\* the boundary rows of the momentum matrix
MomentumBC(co) ==
    LET D_first == FDiv(mu(T[0]), dz)
        D_last  == FDiv(mu(T[N - 1]), dz)
        b_first == FAdd(FDiv(FMul(rho(T[0]), dz), dt(variant)), FMul(IntF(2), D_first))
        b_last  == FAdd(FDiv(FMul(rho(T[N - 1]), dz), dt(variant)), FMul(IntF(2), D_last))
    IN  [aU |-> [co.aU EXCEPT ![N - 1] = Zero(0)],
         bU |-> [co.bU EXCEPT ![0] = b_first, ![N - 1] = b_last],
         cU |-> [co.cU EXCEPT ![0] = Zero(0)],
         dU |-> [co.dU EXCEPT ![0] = FMul(b_first, u_inlet), ![N - 1] = FMul(b_last, u_outlet)]]

(***************************************************************************)
(* Continuity satisfactor: the pressure-correction equation.               *)
(***************************************************************************)
\* an assembly that takes 1/bU of the cell, not the average of the face, for the east face
ContinuityCell_cell(i) ==
    LET rho_P == rho(T[i])
        rho_L == rho(T[i - 1])
        rho_R == rho(T[i + 1])
        rho_l == FMul(Half, FAdd(rho_L, rho_P))
        d_l_face == FMul(Half, FAdd(FDiv(One, bU[i - 1]), FDiv(One, bU[i])))
        E_l   == IF variant = "PISO_cpp" THEN FDiv(FMul(rho_l, d_l_face), dz)
                 ELSE FDiv(FMul(rho_l, d_l_face), FMul(dz, dz))
        rho_r == FMul(Half, FAdd(rho_P, rho_R))
        d_r_face == FDiv(One, bU[i])
        E_r   == IF variant = "PISO_cpp" THEN FDiv(FMul(rho_r, d_r_face), dz)
                 ELSE FDiv(FMul(rho_r, d_r_face), FMul(dz, dz))
        u_l_star == u_l_face(i, bU)
        mdot_l_star == IfGt(u_l_star, Zero(0), FMul(rho_L, u_l_star), FMul(rho_P, u_l_star))
        u_r_star == u_r_face(i, bU)
        mdot_r_star == IfGt(u_r_star, Zero(0), FMul(rho_P, u_r_star), FMul(rho_R, u_r_star))
        mass_imbalance == IF variant = "PISO_cpp" THEN FSub(mdot_r_star, mdot_l_star)
                          ELSE FDiv(FSub(mdot_r_star, mdot_l_star), dz)
    IN  [aP |-> FNeg(E_l),
         cP |-> FNeg(E_r),
         bP |-> FAdd(E_l, E_r),
         dP |-> IF variant = "PISO_cpp" THEN FSub(FMul(Sm[i], dz), mass_imbalance)
                ELSE FSub(Sm[i], mass_imbalance),
         mdot_l_star |-> mdot_l_star,
         mdot_r_star |-> mdot_r_star,
         mass_imbalance |-> mass_imbalance]

\* one iteration of the loop on the interior cells
ContinuityCell(i) ==
    LET rho_P == rho(T[i])
        rho_L == rho(T[i - 1])
        rho_R == rho(T[i + 1])
        rho_l == FMul(Half, FAdd(rho_L, rho_P))
        d_l_face == FMul(Half, FAdd(FDiv(One, bU[i - 1]), FDiv(One, bU[i])))
        E_l   == IF variant = "PISO_cpp" THEN FDiv(FMul(rho_l, d_l_face), dz)
                 ELSE FDiv(FMul(rho_l, d_l_face), FMul(dz, dz))
        rho_r == FMul(Half, FAdd(rho_P, rho_R))
        d_r_face == FMul(Half, FAdd(FDiv(One, bU[i]), FDiv(One, bU[i + 1])))
        E_r   == IF variant = "PISO_cpp" THEN FDiv(FMul(rho_r, d_r_face), dz)
                 ELSE FDiv(FMul(rho_r, d_r_face), FMul(dz, dz))
        u_l_star == u_l_face(i, bU)
        mdot_l_star == IfGt(u_l_star, Zero(0), FMul(rho_L, u_l_star), FMul(rho_P, u_l_star))
        u_r_star == u_r_face(i, bU)
        mdot_r_star == IfGt(u_r_star, Zero(0), FMul(rho_P, u_r_star), FMul(rho_R, u_r_star))
        mass_imbalance == IF variant = "PISO_cpp" THEN FSub(mdot_r_star, mdot_l_star)
                          ELSE FDiv(FSub(mdot_r_star, mdot_l_star), dz)
    IN  [aP |-> FNeg(E_l),
         cP |-> FNeg(E_r),
         bP |-> FAdd(E_l, E_r),
         dP |-> IF variant = "PISO_cpp" THEN FSub(FMul(Sm[i], dz), mass_imbalance)
                ELSE FSub(Sm[i], mass_imbalance),
         mdot_l_star |-> mdot_l_star,
         mdot_r_star |-> mdot_r_star,
         mass_imbalance |-> mass_imbalance]

\* the pressure-correction system with its boundary rows
ContinuityMatrix ==
    [aP |-> [i \in Idx |-> IF i \in Interior THEN ContinuityCell(i).aP ELSE Zero(0)],
     bP |-> [i \in Idx |-> IF i \in Interior THEN ContinuityCell(i).bP ELSE One],
     cP |-> [i \in Idx |-> IF i \in Interior THEN ContinuityCell(i).cP
                           ELSE IF i = 0 THEN FNeg(One) ELSE Zero(0)],
     dP |-> [i \in Idx |-> IF i \in Interior THEN ContinuityCell(i).dP ELSE Zero(0)]]

(***************************************************************************)
(* Pressure and velocity correctors.                                       *)
(***************************************************************************)
pressure_corrector(pp, pprime) == [i \in Idx |-> FAdd(pp[i], pprime[i])]

\* a refresh that gives the outlet pressure to both ghost nodes
refresh_outlet(pp) ==
    [j \in 0..(N + 1) |-> IF j = N + 1 THEN p_outlet
                          ELSE IF j = 0 THEN p_outlet
                          ELSE pp[j - 1]]

\* the padded buffer after the refresh from the pressure pp
refresh(pp) ==
    [j \in 0..(N + 1) |-> IF j = N + 1 THEN p_outlet
                          ELSE IF j = 0 THEN pp[0]
                          ELSE pp[j - 1]]

\* a corrector that also gives the outlet node the velocity of its neighbour
velocity_corrector_outlet(uu, pprime, bb) ==
    [i \in Idx |-> IF i \in Interior
                   THEN FSub(uu[i], FDiv(FSub(pprime[i + 1], pprime[i - 1]),
                                         FMul(FMul(IntF(2), dz), bb[i])))
                   ELSE IF i = N - 1 THEN uu[N - 2] ELSE uu[i]]

velocity_corrector(uu, pprime, bb) ==
    [i \in Idx |-> IF i \in Interior
                   THEN FSub(uu[i], FDiv(FSub(pprime[i + 1], pprime[i - 1]),
                                         FMul(FMul(IntF(2), dz), bb[i])))
                   ELSE uu[i]]

\* maxErr after the cells 1..i of the velocity corrector
RECURSIVE residual(_, _, _)
residual(i, unew, uprev) ==
    IF i = 0 THEN Zero(0)
    ELSE FMax(residual(i - 1, unew, uprev), FAbs(FSub(unew[i], uprev[i])))

(***************************************************************************)
(* Temperature calculator.                                                 *)
(***************************************************************************)
EnergyCell(i) ==
    LET rho_P == rho(T[i])
        rho_L == rho(T[i - 1])
        rho_R == rho(T[i + 1])
        ul    == u_l_face(i, bU)
        ur    == u_r_face(i, bU)
        rho_l == IfGe(ul, Zero(0), rho_L, rho_P)
        rho_r == IfGe(ur, Zero(0), rho_P, rho_R)
        Fl    == FMul(rho_l, ul)
        Fr    == FMul(rho_r, ur)
    IN  IF variant = "PISO_cpp"
        THEN LET k_cond_P == k(T[i])
                 k_cond_L == k(T[i - 1])
                 k_cond_R == k(T[i + 1])
                 cp_P == cp(T[i])
                 cp_L == cp(T[i - 1])
                 cp_R == cp(T[i + 1])
                 rhoCp_dzdt == FDiv(FMul(FMul(rho_P, cp_P), dz), dt(variant))
                 D_l  == FDiv(FMul(Half, FAdd(k_cond_P, k_cond_L)), dz)
                 D_r  == FDiv(FMul(Half, FAdd(k_cond_P, k_cond_R)), dz)
                 cp_l == IfGe(ul, Zero(0), cp_L, cp_P)
                 cp_r == IfGe(ur, Zero(0), cp_P, cp_R)
                 C_l  == FMul(Fl, cp_l)
                 C_r  == FMul(Fr, cp_r)
             IN  [aXT |-> FSub(FNeg(D_l), FMax(C_l, Zero(0))),
                  cXT |-> FAdd(FNeg(D_r), FMax(FNeg(C_r), Zero(0))),
                  bXT |-> FAdd(FAdd(FAdd(FSub(FMax(C_r, Zero(0)), FMax(FNeg(C_l), Zero(0))), D_l), D_r),
                               rhoCp_dzdt),
                  dXT |-> FAdd(FMul(rhoCp_dzdt, T_old[i]), FMul(St(variant)[i], dz))]
        ELSE LET kk   == k(T[i])
                 cpp  == cp(T[i])
                 rhoCp_dt == FDiv(FMul(rho_P, cpp), dt(variant))
                 D_w  == FDiv(kk, FMul(dz, dz))
                 D_e  == FDiv(kk, FMul(dz, dz))
                 C_w_dx == FDiv(FMul(Fl, cpp), dz)
                 C_e_dx == FDiv(FMul(Fr, cpp), dz)
                 A_w  == FAdd(D_w, FMax(C_w_dx, Zero(0)))
                 A_e  == FAdd(D_e, FMax(FNeg(C_e_dx), Zero(0)))
             IN  [aXT |-> FNeg(A_w),
                  cXT |-> FNeg(A_e),
                  bXT |-> FAdd(FAdd(A_w, A_e), rhoCp_dt),
                  dXT |-> FAdd(FMul(rhoCp_dt, T[i]), St(variant)[i])]

\* the temperature system with its boundary rows
EnergyMatrix ==
    LET dirichlet == variant = "part_000"
    IN  [aXT |-> [i \in Idx |-> IF i \in Interior THEN EnergyCell(i).aXT
                                ELSE IF i = N - 1 /\ ~dirichlet THEN FNeg(One) ELSE Zero(0)],
         bXT |-> [i \in Idx |-> IF i \in Interior THEN EnergyCell(i).bXT ELSE One],
         cXT |-> [i \in Idx |-> IF i \in Interior THEN EnergyCell(i).cXT
                                ELSE IF i = 0 /\ ~dirichlet THEN FNeg(One) ELSE Zero(0)],
         dXT |-> [i \in Idx |-> IF i \in Interior THEN EnergyCell(i).dXT
                                ELSE IF ~dirichlet THEN Zero(0)
                                ELSE IF i = 0 THEN T_inlet ELSE T_outlet]]

(***************************************************************************)
(* Output file.  A write of a number is a token with the number, a write   *)
(* of a string literal a token with the string.                            *)
(***************************************************************************)
Num(x) == [str |-> "", num |-> <<x>>]
Str(t) == [str |-> t, num |-> <<>>]

\* for (i = 0; i < N; i++) fout << xs[i] << ", ";
Profile(xs) == [j \in 1..(2 * N) |-> IF j % 2 = 1 THEN Num(xs[(j - 1) \div 2]) ELSE Str(", ")]

(***************************************************************************)
(* The program.                                                            *)
(***************************************************************************)
\* a loop without a budget of iterations
loop_continues_unbounded(n, err) == FGt(err, tol)

\* the loop goes on at a residual equal to the tolerance
loop_continues_at_tol(n, err) == n < tot_iter /\ FGe(err, tol)

\* the condition of "while (iter < tot_iter && maxErr > tol)"
loop_continues(n, err) == n < tot_iter /\ FGt(err, tol)

\* one corrector too many
more_correctors_extra(n) == n <= corr_iter

\* the condition of "for (int piso = 0; piso < corr_iter; piso++)"
more_correctors(n) == n < corr_iter

\* the values that the definitions of the program give to its variables
Constructed ==
    /\ it = 0
    /\ iter = 0
    /\ piso = 0
    /\ \E c \in {Vals([one |-> One, u |-> Lit(1, 1000), p |-> Lit(50000, 1), T |-> T_init(variant),
                        bU |-> bU_seed(variant)])} :
           /\ maxErr = c.one
           /\ u = Vec(c.u)
           /\ p = Vec(c.p)
           /\ T = Vec(c.T)
           /\ p_storage = [j \in 0..(N + 1) |-> c.p]
           /\ T_old = Vec(c.T)
           /\ p_old = Vec(c.p)
           /\ bU = Vec(c.bU)
           /\ bU_prev = Vec(c.bU)
    /\ p_prime = Vec(Zero(0))
    /\ aU = Vec(Zero(0)) /\ cU = Vec(Zero(0)) /\ dU = Vec(Zero(0))
    /\ aP = Vec(Zero(0)) /\ bP = Vec(Zero(0)) /\ cP = Vec(Zero(0)) /\ dP = Vec(Zero(0))
    /\ aXT = Vec(Zero(0)) /\ bXT = Vec(Zero(0)) /\ cXT = Vec(Zero(0)) /\ dXT = Vec(Zero(0))
    /\ wpc = [i \in Interior |-> "idle"]
    /\ seen = [i \in Interior |-> nothing]
    /\ fout = <<>>
    /\ hist = <<>>

\* solveTridiagonal is not being called on its own
NoCall == sys = <<>> /\ sol = <<>>

Init ==
    /\ variant \in Variants
    /\ pc = "TimeLoop"
    /\ Constructed
    /\ NoCall

\* the head of the loop on timesteps: backup and start of the PISO iterations
\* a start of timestep that takes no backup
StartTimestep_stale ==
    /\ pc = "TimeLoop"
    /\ it < t_iter
    /\ UNCHANGED <<T_old, p_old>>
    /\ iter' = 0
    /\ maxErr' = Val(One)
    /\ hist' = <<>>
    /\ pc' = "CheckResidual"
    /\ UNCHANGED <<config, call, it, piso, u, p, T, p_storage, p_prime, momentum, continuity, energy, workers,
                   fout, bU_prev>>

StartTimestep ==
    /\ pc = "TimeLoop"
    /\ it < t_iter
    /\ IF variant = "PISO_cpp"
       THEN T_old' = T /\ p_old' = p
       ELSE UNCHANGED <<T_old, p_old>>
    /\ iter' = 0
    /\ maxErr' = Val(One)
    /\ hist' = <<>>
    /\ pc' = "CheckResidual"
    /\ UNCHANGED <<config, call, it, piso, u, p, T, p_storage, p_prime, momentum, continuity, energy, workers,
                   fout, bU_prev>>

\* the loop is left for the output region
CheckResidual_skip ==
    /\ pc = "CheckResidual"
    /\ IF loop_continues(iter, maxErr)
       THEN pc' = "AssembleMomentum"
       ELSE pc' = "Output"
    /\ bU_prev' = bU
    /\ UNCHANGED <<config, call, it, iter, piso, maxErr, fields, momentum, continuity, energy, workers, fout,
                   hist>>

\* while (iter < tot_iter && maxErr > tol)
CheckResidual ==
    /\ pc = "CheckResidual"
    /\ IF loop_continues(iter, maxErr)
       THEN pc' = "AssembleMomentum"
       ELSE pc' = "AssembleEnergy"
    /\ bU_prev' = bU
    /\ UNCHANGED <<config, call, it, iter, piso, maxErr, fields, momentum, continuity, energy, workers, fout,
                   hist>>

\* momentum loop, iteration of cell i: the reads of bU
MomentumRead(i) ==
    /\ pc = "AssembleMomentum"
    /\ wpc[i] = "idle"
    /\ seen' = [seen EXCEPT ![i] = bU_read(i)]
    /\ wpc' = [wpc EXCEPT ![i] = "read"]
    /\ UNCHANGED <<config, call, pc, it, iter, piso, maxErr, fields, momentum, continuity, energy, fout, hist,
                   bU_prev>>

\* momentum loop, iteration of cell i: the writes of aU[i], cU[i], bU[i], dU[i]
MomentumWrite(i) ==
    /\ pc = "AssembleMomentum"
    /\ wpc[i] = "read"
    /\ \E cell \in {Vals(MomentumCell(i, seen[i], absu)) : absu \in abs_outcomes(u[i])} :
           /\ aU' = [aU EXCEPT ![i] = cell.aU]
           /\ cU' = [cU EXCEPT ![i] = cell.cU]
           /\ bU' = [bU EXCEPT ![i] = cell.bU]
           /\ dU' = [dU EXCEPT ![i] = cell.dU]
    /\ wpc' = [wpc EXCEPT ![i] = "done"]
    /\ UNCHANGED <<config, call, pc, it, iter, piso, maxErr, fields, continuity, energy, seen, fout, hist,
                   bU_prev>>

\* the boundary rows of the momentum matrix, after the loop
MomentumBoundary ==
    /\ pc = "AssembleMomentum"
    /\ \A i \in Interior : wpc[i] = "done"
    /\ \E co \in {Matrix(MomentumBC([aU |-> aU, bU |-> bU, cU |-> cU, dU |-> dU]))} :
           /\ aU' = co.aU
           /\ bU' = co.bU
           /\ cU' = co.cU
           /\ dU' = co.dU
    /\ wpc' = [i \in Interior |-> "idle"]
    /\ seen' = [i \in Interior |-> nothing]
    /\ hist' = Append(hist, "AssembleMomentum")
    /\ pc' = "SolveMomentum"
    /\ UNCHANGED <<config, call, it, iter, piso, maxErr, fields, continuity, energy, fout, bU_prev>>

SolveMomentum ==
    /\ pc = "SolveMomentum"
    /\ u' = solveTridiagonal(aU, bU, cU, dU)
    /\ piso' = 0
    /\ hist' = Append(hist, "SolveMomentum")
    /\ IF more_correctors(0)
       THEN pc' = "AssembleContinuity" /\ iter' = iter
       ELSE pc' = "CheckResidual" /\ iter' = iter + 1
    /\ UNCHANGED <<config, call, it, maxErr, p, T, p_storage, T_old, p_old, p_prime, momentum, continuity, energy,
                   workers, fout, bU_prev>>

AssembleContinuity ==
    /\ pc = "AssembleContinuity"
    /\ \E co \in {Matrix(ContinuityMatrix)} :
           /\ aP' = co.aP
           /\ bP' = co.bP
           /\ cP' = co.cP
           /\ dP' = co.dP
    /\ hist' = Append(hist, "AssembleContinuity")
    /\ pc' = "SolveContinuity"
    /\ UNCHANGED <<config, call, it, iter, piso, maxErr, fields, momentum, energy, workers, fout, bU_prev>>

\* a solve that leaves the pressure correction in bU too
SolveContinuity_bU ==
    /\ pc = "SolveContinuity"
    /\ p_prime' = solveTridiagonal(aP, bP, cP, dP)
    /\ bU' = p_prime'
    /\ hist' = Append(hist, "SolveContinuity")
    /\ pc' = "UpdateFields"
    /\ UNCHANGED <<config, call, it, iter, piso, maxErr, u, p, T, p_storage, T_old, p_old, aU, cU, dU,
                   continuity, energy, workers, fout, bU_prev>>

SolveContinuity ==
    /\ pc = "SolveContinuity"
    /\ p_prime' = solveTridiagonal(aP, bP, cP, dP)
    /\ hist' = Append(hist, "SolveContinuity")
    /\ pc' = "UpdateFields"
    /\ UNCHANGED <<config, call, it, iter, piso, maxErr, u, p, T, p_storage, T_old, p_old, momentum, continuity,
                   energy, workers, fout, bU_prev>>

\* pressure corrector, refresh of the padded buffer, velocity corrector
UpdateFields ==
    /\ pc = "UpdateFields"
    /\ p' = Vals(pressure_corrector(p, p_prime))
    /\ p_storage' = Vals(refresh(p'))
    /\ u' = Vals(velocity_corrector(u, p_prime, bU))
    /\ maxErr' = Val(residual(N - 2, u', u))
    /\ piso' = piso + 1
    /\ hist' = Append(hist, "UpdateFields")
    /\ IF more_correctors(piso + 1)
       THEN pc' = "AssembleContinuity" /\ iter' = iter
       ELSE pc' = "CheckResidual" /\ iter' = iter + 1
    /\ UNCHANGED <<config, call, it, T, T_old, p_old, p_prime, momentum, continuity, energy, workers, fout,
                   bU_prev>>

AssembleEnergy ==
    /\ pc = "AssembleEnergy"
    /\ \E co \in {Matrix(EnergyMatrix)} :
           /\ aXT' = co.aXT
           /\ bXT' = co.bXT
           /\ cXT' = co.cXT
           /\ dXT' = co.dXT
    /\ hist' = Append(hist, "AssembleEnergy")
    /\ pc' = "SolveEnergy"
    /\ UNCHANGED <<config, call, it, iter, piso, maxErr, fields, momentum, continuity, workers, fout, bU_prev>>

SolveEnergy ==
    /\ pc = "SolveEnergy"
    /\ T' = solveTridiagonal(aXT, bXT, cXT, dXT)
    /\ hist' = Append(hist, "SolveEnergy")
    /\ pc' = "Output"
    /\ UNCHANGED <<config, call, it, iter, piso, maxErr, u, p, p_storage, T_old, p_old, p_prime, momentum,
                   continuity, energy, workers, fout, bU_prev>>

\* the output region, and the step of the loop on timesteps
Output ==
    /\ pc = "Output"
    /\ LET last == it = t_iter - 1
       IN  fout' = fout \o (IF last THEN Profile(u) ELSE <<>>) \o <<Str("\n\n")>>
                        \o (IF last THEN Profile(p) ELSE <<>>) \o <<Str("\n\n")>>
                        \o (IF last THEN Profile(T) ELSE <<>>)
    /\ it' = it + 1
    /\ pc' = "TimeLoop"
    /\ UNCHANGED <<config, call, iter, piso, maxErr, fields, momentum, continuity, energy, workers, hist,
                   bU_prev>>

\* fout.close(); return 0;
Finish ==
    /\ pc = "TimeLoop"
    /\ ~(it < t_iter)
    /\ pc' = "Done"
    /\ UNCHANGED <<config, call, it, iter, piso, maxErr, fields, momentum, continuity, energy, workers, fout,
                   hist, bU_prev>>

Next ==
    \/ StartTimestep
    \/ CheckResidual
    \/ \E i \in Interior : MomentumRead(i)
    \/ \E i \in Interior : MomentumWrite(i)
    \/ MomentumBoundary
    \/ SolveMomentum
    \/ AssembleContinuity
    \/ SolveContinuity
    \/ UpdateFields
    \/ AssembleEnergy
    \/ SolveEnergy
    \/ Output
    \/ Finish

Spec == Init /\ [][Next]_vars

(***************************************************************************)
(* States inside a run.  The test of the inner loop is reached with any    *)
(* count of iterations up to the budget and with any residual that         *)
(* std::max and std::fabs can leave; the fields it is reached with are not *)
(* the initial ones, and the velocity of part_000 overflows in its first   *)
(* timestep.                                                               *)
(***************************************************************************)
\* one inner iteration, and n of them
PISO_iteration ==
    <<"AssembleMomentum", "SolveMomentum">>
        \o [j \in 1..(3 * corr_iter) |->
               <<"AssembleContinuity", "SolveContinuity", "UpdateFields">>[((j - 1) % 3) + 1]]

RECURSIVE Repeated(_, _)
Repeated(stages, n) == IF n = 0 THEN <<>> ELSE stages \o Repeated(stages, n - 1)

\* the program at the test of the inner loop in timestep t, after n iterations that left
\* the residual err, the velocity uu and the pressure pp
Inside(t, n, err, uu, pp) ==
    /\ pc = "CheckResidual"
    /\ it = t
    /\ iter = n
    /\ piso = IF n = 0 THEN 0 ELSE corr_iter
    /\ maxErr = err
    /\ u = uu
    /\ p = pp
    /\ p_storage = [j \in 0..(N + 1) |-> IF j = 0 THEN pp[0]
                                         ELSE IF j = N + 1 THEN Val(p_outlet)
                                         ELSE pp[j - 1]]
    /\ p_old = pp
    /\ \E c \in {Vals([T |-> T_init(variant), bU |-> bU_seed(variant)])} :
           /\ T = Vec(c.T)
           /\ T_old = Vec(c.T)
           /\ bU = Vec(c.bU)
           /\ bU_prev = Vec(c.bU)
    /\ p_prime = Vec(Zero(0))
    /\ aU = Vec(Zero(0)) /\ cU = Vec(Zero(0)) /\ dU = Vec(Zero(0))
    /\ aP = Vec(Zero(0)) /\ bP = Vec(Zero(0)) /\ cP = Vec(Zero(0)) /\ dP = Vec(Zero(0))
    /\ aXT = Vec(Zero(0)) /\ bXT = Vec(Zero(0)) /\ cXT = Vec(Zero(0)) /\ dXT = Vec(Zero(0))
    /\ wpc = [i \in Interior |-> "idle"]
    /\ seen = [i \in Interior |-> nothing]
    /\ fout = Repeated(<<Str("\n\n"), Str("\n\n")>>, t)
    /\ hist = Repeated(PISO_iteration, n)

\* the initial fields; a velocity as the iterations leave it, with the boundary values
\* of the momentum solve, and one that has overflowed in a cell; a pressure with a step;
\* residuals
Samples ==
    Matrix([u_init |-> Vec(Lit(1, 1000)),
            u |-> [i \in Idx |-> IF i = 0 THEN u_inlet ELSE IF i = N - 1 THEN u_outlet ELSE Lit(1, 1000)],
            u_overflow |-> [i \in Idx |-> IF i = 0 THEN u_inlet ELSE IF i = N - 1 THEN u_outlet
                                          ELSE IF i = 2 THEN Inf(0) ELSE Lit(1, 1000)],
            p |-> Vec(Lit(50000, 1)),
            p_step |-> [i \in Idx |-> IF i < 2 THEN Lit(57344, 1) ELSE Lit(50000, 1)],
            maxErr |-> <<Zero(0), FMul(Half, tol), tol, FMul(IntF(2), tol), One, Inf(0)>>])

LoopInit ==
    /\ variant \in Variants
    /\ NoCall
    /\ \/ Inside(0, 0, Samples.maxErr[5], Samples.u_init, Samples.p)
       \/ \E n \in {tot_iter - 1, tot_iter}, j \in DOMAIN Samples.maxErr :
              Inside(Max(t_iter - 2, 0), n, Samples.maxErr[j], Samples.u, Samples.p)
       \/ Inside(Max(t_iter - 2, 0), tot_iter - 1, Samples.maxErr[5], Samples.u_overflow, Samples.p)

LoopSpec == LoopInit /\ [][Next]_vars

FieldInit ==
    /\ variant \in Variants
    /\ NoCall
    /\ \E uu \in {Samples.u, Samples.u_overflow}, pp \in {Samples.p, Samples.p_step} :
           Inside(t_iter - 1, tot_iter - 1, Samples.maxErr[5], uu, pp)

FieldSpec == (Init \/ FieldInit) /\ [][Next]_vars

\* the values of pc
Stages ==
    {"TimeLoop", "CheckResidual", "AssembleMomentum", "SolveMomentum", "AssembleContinuity",
     "SolveContinuity", "UpdateFields", "AssembleEnergy", "SolveEnergy", "Output", "Done"}

\* The program executes its statements one after the other until it returns.  No
\* statement waits for anything, so that a step of Next is possible exactly as long as
\* pc is not "Done", and every step of Next moves pc or, inside the momentum loop, wpc:
\* Running is the move of the control alone.
Running ==
    /\ pc # "Done"
    /\ pc' \in Stages
    /\ wpc' \in [Interior -> {"idle", "read", "done"}]

FairSpec == FieldSpec /\ WF_<<pc, wpc>>(Running)

(***************************************************************************)
(* solveTridiagonal called on its own, on systems of up to MaxLen rows     *)
(* whose rows <<a, b, c, d>> are taken from Rows: rows of a strictly       *)
(* diagonally dominant matrix, boundary rows as the programs write them,   *)
(* and rows that are not dominant.                                         *)
(***************************************************************************)
MaxLen == 3

Rows ==
    {<<1, 3, 1, 2>>, <<-1, 4, 2, -3>>, <<2, -5, 1, 7>>, <<1, 7, 5, 6>>, <<0, 1, 0, 5>>, <<3, 2, 3, 1>>}

SolverInit ==
    /\ variant \in Variants
    /\ pc = "Solve"
    /\ Constructed
    /\ sol = <<>>
    /\ \E n \in 1..MaxLen :
           \E rows \in [0..(n - 1) -> Rows] :
               sys = Matrix([a |-> [i \in 0..(n - 1) |-> IntF(rows[i][1])],
                             b |-> [i \in 0..(n - 1) |-> IntF(rows[i][2])],
                             c |-> [i \in 0..(n - 1) |-> IntF(rows[i][3])],
                             d |-> [i \in 0..(n - 1) |-> IntF(rows[i][4])]])

\* x = solveTridiagonal(a, b, c, d)
Solve ==
    /\ pc = "Solve"
    /\ sol' = solveTridiagonal(sys.a, sys.b, sys.c, sys.d)
    /\ pc' = "Solved"
    /\ UNCHANGED <<config, sys, it, iter, piso, maxErr, fields, momentum, continuity, energy, workers, fout,
                   hist, bU_prev>>

SolverSpec == SolverInit /\ [][Solve]_vars

(***************************************************************************)
(* The property functions alone: one call of rho, k, cp or mu on a         *)
(* temperature below, at and above the solidification temperature, on the  *)
(* temperatures the programs start from, and on values that are not        *)
(* finite.  With MantBits = 4 Tsolid is 384, and 352 and 416 are its       *)
(* neighbours.                                                             *)
(***************************************************************************)
Temperatures ==
    {Val(e) : e \in {Lit(-100, 1), Lit(0, 1), T_outlet, T_init("part_000"), T_inlet, Lit(352, 1), Tsolid,
                     Lit(416, 1), T_init("PISO_cpp"), Lit(1000, 1), Tcrit, Lit(3000, 1), Inf(0), Inf(1), NaN}}

PropertyNames == {"rho", "k", "cp", "mu"}

PropertyInit ==
    /\ variant \in Variants
    /\ pc = "Property"
    /\ Constructed
    /\ sol = <<>>
    /\ \E Tk \in Temperatures : sys = [T |-> Tk]

\* f(T): what is printed, and what is returned
Property(f) ==
    /\ pc = "Property"
    /\ sol' = [f |-> f,
               warning |-> warned(variant, sys.T),
               value |-> Val(CASE f = "rho" -> rho(sys.T)
                               [] f = "k" -> k(sys.T)
                               [] f = "cp" -> cp(sys.T)
                               [] f = "mu" -> mu(sys.T))]
    /\ pc' = "Returned"
    /\ UNCHANGED <<config, sys, it, iter, piso, maxErr, fields, momentum, continuity, energy, workers, fout,
                   hist, bU_prev>>

PropertySpec == PropertyInit /\ [][\E f \in PropertyNames : Property(f)]_vars

(***************************************************************************)
(* The face mass fluxes alone: the fluxes of the momentum assembly and of  *)
(* the continuity assembly computed from one and the same u, padded        *)
(* pressure, bU and T.  The velocities are the initial one, one as the     *)
(* iterations leave it, a fluid at rest, a reversed flow and one that has  *)
(* overflowed in a cell; the temperatures are the initial one, a ramp, and *)
(* one with a cell above the critical temperature, where rho is NaN.       *)
(***************************************************************************)
FluxSamples ==
    [u |-> {Samples.u_init, Samples.u, Samples.u_overflow, Vals(Vec(Zero(0))), Vals(Vec(Lit(-1, 1000)))},
     p |-> {Samples.p, Samples.p_step},
     T |-> {Vals(Vec(T_init(v))) : v \in Variants}
               \cup {Vals([i \in Idx |-> IF i = 2 THEN Lit(3000, 1) ELSE T_init("PISO_cpp")]),
                     Vals([i \in Idx |-> IF i < 2 THEN Lit(800, 1) ELSE T_init("PISO_cpp")])}]

FluxInit ==
    /\ variant \in Variants
    /\ pc = "Fluxes"
    /\ NoCall
    /\ it = 0 /\ iter = 0 /\ piso = 0
    /\ maxErr = Val(One)
    /\ u \in FluxSamples.u
    /\ p \in FluxSamples.p
    /\ p_storage = [j \in 0..(N + 1) |-> IF j = 0 THEN p[0] ELSE IF j = N + 1 THEN Val(p_outlet) ELSE p[j - 1]]
    /\ p_old = p
    /\ T \in FluxSamples.T
    /\ T_old = T
    /\ \E c \in {Vals([bU |-> bU_seed(variant)])} : bU = Vec(c.bU) /\ bU_prev = Vec(c.bU)
    /\ p_prime = Vec(Zero(0))
    /\ aU = Vec(Zero(0)) /\ cU = Vec(Zero(0)) /\ dU = Vec(Zero(0))
    /\ aP = Vec(Zero(0)) /\ bP = Vec(Zero(0)) /\ cP = Vec(Zero(0)) /\ dP = Vec(Zero(0))
    /\ aXT = Vec(Zero(0)) /\ bXT = Vec(Zero(0)) /\ cXT = Vec(Zero(0)) /\ dXT = Vec(Zero(0))
    /\ wpc = [i \in Interior |-> "idle"]
    /\ seen = [i \in Interior |-> nothing]
    /\ fout = <<>>
    /\ hist = <<>>

\* F_l, F_r of the momentum loop and mdot_l_star, mdot_r_star of the continuity loop
Fluxes ==
    /\ pc = "Fluxes"
    /\ sol' = [i \in Interior |->
                  Vals([F_l |-> MomentumCell(i, bU, Zero(0)).F_l,
                        F_r |-> MomentumCell(i, bU, Zero(0)).F_r,
                        mdot_l_star |-> ContinuityCell(i).mdot_l_star,
                        mdot_r_star |-> ContinuityCell(i).mdot_r_star,
                        u_l_face |-> u_l_face(i, bU),
                        u_r_face |-> u_r_face(i, bU),
                        rho_L |-> rho(T[i - 1]),
                        rho_P |-> rho(T[i]),
                        rho_R |-> rho(T[i + 1])])]
    /\ pc' = "Compared"
    /\ UNCHANGED <<config, sys, it, iter, piso, maxErr, fields, momentum, continuity, energy, workers, fout,
                   hist, bU_prev>>

FluxSpec == FluxInit /\ [][Fluxes]_vars

(***************************************************************************)
(* The SIMPLEC program, the first program of src/PISO.cpp: the loop that   *)
(* assembles the pressure-correction equation.  rhiechow and dudx are      *)
(* declared before the parallel loop: the iterations share them.  Each     *)
(* statement of an iteration is a step; an iteration reads in rhiechow and *)
(* dudx what was written last, by itself or by another iteration.          *)
(***************************************************************************)
\* number of nodes of the SIMPLEC grid (500 in the program)
Nx == 6

Cells == 0..(Nx - 1)
\* the cells of the loop: for (ix = 2; ix < Nx - 2; ix++)
Inner == 2..(Nx - 3)

L_SIMPLEC == Lit(1, 100)
dx == FDiv(L_SIMPLEC, IntF(Nx - 1))
dt_SIMPLEC == Lit(1, 10000)
rhiechow_coeff == Lit(1, 1)

T_Na_crit == Lit(250946, 100)

rho_Na_l(Tk) ==
    LET w == FSub(Lit(1, 1), FDiv(Tk, T_Na_crit))
    IN  FAdd(FAdd(Lit(219, 1), FMul(Lit(27532, 100), w)), FMul(Lit(51158, 100), FPowHalf(w)))

\* the first statement of the iteration of cell ix; b is the diagonal of the momentum system
rhiechow(ix, b) ==
    FMul(FMul(FDiv(Lit(-1, 1), FMul(IntF(8), dx)), FSub(FDiv(One, b[ix + 1]), FDiv(One, b[ix - 1]))),
         FSub(FAdd(FSub(FAdd(FNeg(p[ix - 2]), FMul(IntF(4), p[ix - 1])), FMul(IntF(6), p[ix])),
                   FMul(IntF(4), p[ix + 1])),
              p[ix + 2]))

\* the second statement, with rc for the value read in rhiechow
dudx(ix, rc) == FAdd(FDiv(FSub(u[ix + 1], u[ix - 1]), FMul(IntF(2), dx)), FMul(rhiechow_coeff, rc))

\* dP[ix], with g for the value read in dudx
dP_SIMPLEC(ix, g) == FMul(FDiv(rho_Na_l(T[ix]), dt_SIMPLEC), g)

\* the velocities, pressures and momentum diagonals the loop is entered with
SimplecSamples ==
    Matrix([u_uniform |-> [i \in Cells |-> Lit(1, 100)],
            u_front |-> [i \in Cells |-> IF i < 4 THEN Lit(1, 100) ELSE Lit(2, 100)],
            p_zero |-> [i \in Cells |-> Zero(0)],
            p_step |-> [i \in Cells |-> IF i < 3 THEN Lit(100, 1) ELSE Zero(0)],
            b_uniform |-> [i \in Cells |-> Lit(9000000, 1)],
            b_front |-> [i \in Cells |-> IF i < 4 THEN Lit(9000000, 1) ELSE Lit(18000000, 1)],
            T |-> [i \in Cells |-> IF i = 0 THEN Lit(1000, 1) ELSE IF i = Nx - 1 THEN Lit(500, 1) ELSE Lit(300, 1)],
            zero |-> [i \in Cells |-> Zero(0)]])

SimplecInit ==
    /\ variant = "SIMPLEC"
    /\ pc = "PressureCorrection"
    /\ it = 0 /\ iter = 0 /\ piso = 0
    /\ maxErr = Val(One)
    /\ u \in {SimplecSamples.u_uniform, SimplecSamples.u_front}
    /\ p \in {SimplecSamples.p_zero, SimplecSamples.p_step}
    /\ T = SimplecSamples.T
    /\ \E b \in {SimplecSamples.b_uniform, SimplecSamples.b_front} :
           sys = [b |-> b, rhiechow |-> Val(Zero(0)), dudx |-> Val(Zero(0))]
    /\ sol = <<>>
    /\ aP = SimplecSamples.zero /\ bP = SimplecSamples.zero
    /\ cP = SimplecSamples.zero /\ dP = SimplecSamples.zero
    /\ p_prime = SimplecSamples.zero
    /\ p_storage = <<>> /\ p_old = <<>> /\ T_old = <<>>
    /\ aU = <<>> /\ bU = <<>> /\ cU = <<>> /\ dU = <<>> /\ bU_prev = <<>>
    /\ aXT = <<>> /\ bXT = <<>> /\ cXT = <<>> /\ dXT = <<>>
    /\ wpc = [ix \in Inner |-> "rhiechow"]
    /\ seen = <<>>
    /\ fout = <<>>
    /\ hist = <<>>

\* rhiechow = -1 / (8 * dx) * ...;
WriteRhiechow(ix) ==
    /\ pc = "PressureCorrection"
    /\ wpc[ix] = "rhiechow"
    /\ sys' = [sys EXCEPT !.rhiechow = Val(rhiechow(ix, sys.b))]
    /\ wpc' = [wpc EXCEPT ![ix] = "dudx"]
    /\ UNCHANGED <<config, sol, pc, it, iter, piso, maxErr, fields, momentum, continuity, energy, seen, fout,
                   hist, bU_prev>>

\* dudx = (u[ix + 1] - u[ix - 1]) / (2 * dx) + rhiechow_coeff * rhiechow;
WriteDudx(ix) ==
    /\ pc = "PressureCorrection"
    /\ wpc[ix] = "dudx"
    /\ sys' = [sys EXCEPT !.dudx = Val(dudx(ix, sys.rhiechow))]
    /\ wpc' = [wpc EXCEPT ![ix] = "aP"]
    /\ UNCHANGED <<config, sol, pc, it, iter, piso, maxErr, fields, momentum, continuity, energy, seen, fout,
                   hist, bU_prev>>

\* aP[ix] = ...; cP[ix] = ...; bP[ix] = ...; dP[ix] = rho_Na_l(T[ix]) / dt * dudx;
WriteCoefficients(ix) ==
    /\ pc = "PressureCorrection"
    /\ wpc[ix] = "aP"
    /\ \E co \in {Vals([aP |-> FDiv(FDiv(One, dx), dx),
                        bP |-> FDiv(FDiv(Lit(-2, 1), dx), dx),
                        dP |-> dP_SIMPLEC(ix, sys.dudx)])} :
           /\ aP' = [aP EXCEPT ![ix] = co.aP]
           /\ cP' = [cP EXCEPT ![ix] = co.aP]
           /\ bP' = [bP EXCEPT ![ix] = co.bP]
           /\ dP' = [dP EXCEPT ![ix] = co.dP]
    /\ wpc' = [wpc EXCEPT ![ix] = "done"]
    /\ UNCHANGED <<config, call, pc, it, iter, piso, maxErr, fields, momentum, energy, seen, fout, hist,
                   bU_prev>>

SimplecNext ==
    \/ \E ix \in Inner : WriteRhiechow(ix)
    \/ \E ix \in Inner : WriteDudx(ix)
    \/ \E ix \in Inner : WriteCoefficients(ix)

SimplecSpec == SimplecInit /\ [][SimplecNext]_vars

(***************************************************************************)
(* The subscripts alone: the elements that each region of a timestep       *)
(* reads or writes and the lengths of the vectors, for a grid of n nodes.  *)
(* An access is a pair of the name of an array and a subscript; p_padded   *)
(* points to p_storage[1], so its subscript j is the element j + 1 of      *)
(* p_storage.                                                              *)
(***************************************************************************)
MaxNodes == 8

\* the regions of a timestep; a region of rows writes the boundary rows and solves
Regions ==
    <<"momentum_predictor", "momentum_rows", "continuity_satisfactor", "continuity_rows",
      "pressure_corrector", "pressure_ghosts", "velocity_corrector", "temperature_calculator",
      "temperature_rows", "output", "end">>

\* the cells of the loop of a region
LoopCells(region, n) ==
    IF region \in {"pressure_corrector", "output"} THEN 0..(n - 1)
    ELSE IF region \in {"momentum_predictor", "continuity_satisfactor", "velocity_corrector",
                        "temperature_calculator"} THEN 1..(n - 2)
    ELSE {}

\* the elements of the arrays from i - r to i + r
Reach(arrays, i, r) == {<<a, j>> : a \in arrays, j \in (i - r)..(i + r)}

\* the accesses of iteration i of the loop of a region, and those of a region of rows
Accesses(region, i, n, v) ==
    CASE region = "momentum_predictor" ->
             Reach({"T", "bU", "u", "p"}, i, 1) \cup Reach({"p_padded"}, i, 2)
                 \cup Reach({"aU", "bU", "cU", "dU", "Su"}, i, 0)
      [] region = "momentum_rows" ->
             Reach({"T", "aU", "bU", "cU", "dU"}, 0, 0) \cup Reach({"T", "aU", "bU", "cU", "dU"}, n - 1, 0)
      [] region = "continuity_satisfactor" ->
             Reach({"T", "bU", "u"}, i, 1) \cup Reach({"p_padded"}, i, 2)
                 \cup Reach({"aP", "bP", "cP", "dP", "Sm"}, i, 0)
      [] region = "continuity_rows" ->
             Reach({"bP", "cP", "dP"}, 0, 0) \cup Reach({"aP", "bP", "dP"}, n - 1, 0)
      [] region = "pressure_corrector" ->
             Reach({"p", "p_prime"}, i, 0) \cup Reach({"p_storage"}, i + 1, 0)
      [] region = "pressure_ghosts" ->
             {<<"p_storage", 0>>, <<"p_storage", 1>>, <<"p_storage", n + 1>>}
      [] region = "velocity_corrector" ->
             Reach({"u", "bU"}, i, 0) \cup {<<"p_prime", i - 1>>, <<"p_prime", i + 1>>}
      [] region = "temperature_calculator" ->
             Reach({"T", "bU", "u"}, i, 1) \cup Reach({"p_padded"}, i, 2)
                 \cup Reach({"aXT", "bXT", "cXT", "dXT", "St"}, i, 0)
                 \cup (IF v = "PISO_cpp" THEN {<<"T_old", i>>} ELSE {})
      [] region = "temperature_rows" ->
             Reach({"aXT", "bXT", "cXT", "dXT"}, 0, 0) \cup Reach({"aXT", "bXT", "cXT", "dXT"}, n - 1, 0)
      [] region = "output" -> Reach({"u", "p", "T"}, i, 0)

\* the arrays of one element for each node
PerCell ==
    {"u", "p", "T", "T_old", "p_prime", "Sm", "Su", "St", "aU", "bU", "cU", "dU", "aP", "bP", "cP", "dP",
     "aXT", "bXT", "cXT", "dXT"}

\* std::vector<double> p_storage(N + 2, 50000.0), with one element too few
p_storage_short(n) == n + 1

\* std::vector<double> p_storage(N + 2, 50000.0)
p_storage_size(n) == n + 2

\* the lengths the vectors are constructed with
Constructed_sizes(n) == [a \in PerCell \cup {"p_storage"} |-> IF a = "p_storage" THEN p_storage_size(n) ELSE n]

\* x = solveTridiagonal(a, b, c, d) has b.size() elements
Solved(region, size) ==
    CASE region = "momentum_rows" -> [size EXCEPT !["u"] = size["bU"]]
      [] region = "continuity_rows" -> [size EXCEPT !["p_prime"] = size["bP"]]
      [] region = "temperature_rows" -> [size EXCEPT !["T"] = size["bXT"]]
      [] OTHER -> size

AccessInit ==
    /\ variant \in Variants
    /\ pc = Regions[1]
    /\ \E n \in 3..MaxNodes : sys = [N |-> n, region |-> 1, i |-> 1, size |-> Constructed_sizes(n)]
    /\ sol = {}
    /\ it = 0 /\ iter = 0 /\ piso = 0
    /\ maxErr = Val(One)
    /\ u = <<>> /\ p = <<>> /\ T = <<>> /\ p_storage = <<>> /\ p_old = <<>> /\ T_old = <<>> /\ p_prime = <<>>
    /\ aU = <<>> /\ bU = <<>> /\ cU = <<>> /\ dU = <<>> /\ bU_prev = <<>>
    /\ aP = <<>> /\ bP = <<>> /\ cP = <<>> /\ dP = <<>>
    /\ aXT = <<>> /\ bXT = <<>> /\ cXT = <<>> /\ dXT = <<>>
    /\ wpc = <<>>
    /\ seen = <<>>
    /\ fout = <<>>
    /\ hist = <<>>

\* the region that follows, entered at the first cell of its loop
Enter(r, n) == [region |-> r, i |-> IF Regions[r] \in {"pressure_corrector", "output"} THEN 0 ELSE 1]

\* one iteration of the loop of a region
AccessCell ==
    /\ sys.i \in LoopCells(pc, sys.N)
    /\ sol' = Accesses(pc, sys.i, sys.N, variant)
    /\ IF sys.i + 1 \in LoopCells(pc, sys.N)
       THEN /\ sys' = [sys EXCEPT !.i = sys.i + 1]
            /\ pc' = pc
       ELSE /\ sys' = [sys EXCEPT !.region = sys.region + 1, !.i = Enter(sys.region + 1, sys.N).i]
            /\ pc' = Regions[sys.region + 1]
    /\ UNCHANGED <<config, it, iter, piso, maxErr, fields, momentum, continuity, energy, workers, fout, hist,
                   bU_prev>>

\* the boundary rows and the solve of a region, or the ghost nodes
AccessRows ==
    /\ pc \in {"momentum_rows", "continuity_rows", "pressure_ghosts", "temperature_rows"}
    /\ sol' = Accesses(pc, 0, sys.N, variant)
    /\ sys' = [sys EXCEPT !.region = sys.region + 1, !.i = Enter(sys.region + 1, sys.N).i,
                          !.size = Solved(pc, sys.size)]
    /\ pc' = Regions[sys.region + 1]
    /\ UNCHANGED <<config, it, iter, piso, maxErr, fields, momentum, continuity, energy, workers, fout, hist,
                   bU_prev>>

AccessSpec == AccessInit /\ [][AccessCell \/ AccessRows]_vars

(***************************************************************************)
(* Properties.                                                             *)
(***************************************************************************)
IsLoopStage(st) == st \notin {"AssembleEnergy", "SolveEnergy"}

\* the stages of the inner loop completed in this timestep
LoopStages == SelectSeq(hist, IsLoopStage)

\* C1: the stages completed in a timestep are whole inner iterations, each one momentum
\* assembly, one momentum solve and corr_iter rounds of continuity assembly, continuity
\* solve and field update in that order, followed by the stages of the iteration in
\* progress up to the stage about to run; the residual is tested only between iterations
C1_StageOrder ==
    LET plan == Repeated(PISO_iteration, iter + 1)
        done == Len(LoopStages)
    IN  /\ done < Len(plan)
        /\ LoopStages = SubSeq(plan, 1, done)
        /\ IF pc \in {"AssembleMomentum", "SolveMomentum", "AssembleContinuity", "SolveContinuity",
                       "UpdateFields"}
           THEN plan[done + 1] = pc
           ELSE done = iter * Len(PISO_iteration)

\* two inner iterations are complete and the residual is about to be tested
C1_Witness == pc = "CheckResidual" /\ iter = 2 /\ Len(hist) = 2 * Len(PISO_iteration)

LastWrite == Profile(u) \o <<Str("\n\n")>> \o Profile(p) \o <<Str("\n\n")>> \o Profile(T)

\* the output file after the separators of t timesteps and the profiles of the last one
Written(t) == Repeated(<<Str("\n\n"), Str("\n\n")>>, t - 1) \o LastWrite

IsFiniteVec(xs) == \A i \in DOMAIN xs : IsFinite(xs[i])

\* C3: in every timestep the inner loop performs between 0 and tot_iter iterations,
\* whatever the residual and the fields are, the loop on timesteps never goes past
\* t_iter, and every run eventually returns after exactly t_iter timesteps with the
\* profiles of the last timestep written to the output file
C3_Terminates ==
    /\ [](iter \in 0..tot_iter /\ it \in 0..t_iter)
    /\ [][pc # "Done" /\ <<pc, wpc>>' # <<pc, wpc>>]_vars
    /\ <>(pc = "Done" /\ it = t_iter /\ fout = Written(t_iter))

\* the run has returned with an output that holds values that are not finite
C3_Witness == pc = "Done" /\ fout = Written(t_iter) /\ ~IsFiniteVec(u)

\* C4: in every timestep the temperature system is assembled once and solved once,
\* after the inner loop has been left, whether the residual or the budget ended the
\* loop; the loop is left for the assembly and for nothing else, the system solved is
\* the one assembled from the fields the loop has left, and the temperature stages
\* change neither the velocity nor the pressure
C4_EnergyOnce ==
    /\ [](LET loop == Repeated(PISO_iteration, iter)
          IN  /\ pc \in {"CheckResidual", "AssembleMomentum", "SolveMomentum", "AssembleContinuity",
                          "SolveContinuity", "UpdateFields"} => hist = LoopStages
              /\ pc = "AssembleEnergy" => hist = loop /\ ~loop_continues(iter, maxErr)
              /\ pc = "SolveEnergy" =>
                     /\ hist = loop \o <<"AssembleEnergy">>
                     /\ [aXT |-> aXT, bXT |-> bXT, cXT |-> cXT, dXT |-> dXT] = Matrix(EnergyMatrix)
              /\ pc = "Output" => hist = loop \o <<"AssembleEnergy", "SolveEnergy">>
              /\ pc \in {"TimeLoop", "Done"} =>
                     \/ it = 0 /\ hist = <<>>
                     \/ it > 0 /\ hist = loop \o <<"AssembleEnergy", "SolveEnergy">>)
    /\ [][/\ pc = "CheckResidual" /\ ~loop_continues(iter, maxErr) => pc' = "AssembleEnergy"
          /\ pc \in {"AssembleEnergy", "SolveEnergy"} => u' = u /\ p' = p /\ p_storage' = p_storage]_vars

\* the temperature has been solved after the budget ran out with the residual above the
\* tolerance
C4_Witness ==
    /\ pc = "Output"
    /\ iter = tot_iter
    /\ FGt(maxErr, tol)
    /\ hist = Repeated(PISO_iteration, tot_iter) \o <<"AssembleEnergy", "SolveEnergy">>

\* the stage completed last is a momentum solve
AfterSolveMomentum == hist # <<>> /\ hist[Len(hist)] = "SolveMomentum"

C7_PaddedMirrorsPressure ==
    /\ \A i \in Idx : p_padded(i) = p[i]
    /\ p_padded(-1) = p[0]
    /\ p_padded(N) = Val(p_outlet)

\* the temperature assembly is about to read the buffer after the correctors have moved
\* the pressure away from the pressure the timestep started with
C7_Witness ==
    /\ pc = "AssembleEnergy"
    /\ \E j \in DOMAIN hist : hist[j] = "UpdateFields"
    /\ IsFiniteVec(p)
    /\ p # p_old
    /\ p[0] # Val(p_outlet)

\* C8 as stated: the elements of bU that the iteration of a cell of the momentum loop
\* has read are the ones bU held when the loop was entered, and the coefficients the
\* loop leaves are the ones computed from that bU, under every interleaving
C8_AsStated ==
    /\ \A i \in Interior : wpc[i] # "idle" => seen[i] = [j \in {i - 1, i, i + 1} |-> bU_prev[j]]
    /\ pc = "SolveMomentum" =>
           \A i \in Interior :
               \E cell \in {Vals(MomentumCell(i, bU_prev, absu)) : absu \in abs_outcomes(u[i])} :
                   aU[i] = cell.aU /\ bU[i] = cell.bU /\ cU[i] = cell.cU /\ dU[i] = cell.dU

\* no momentum assembly has been completed since the program started
BeforeFirstAssembly == it = 0 /\ iter = 0 /\ hist = <<>>

\* C9: until the first momentum assembly writes it, every element of bU holds
\* rho(T_init) * dz / dt + 2 * mu(T_init) / dz, and so does every element of bU that
\* an iteration of the first momentum loop has read unless the iteration of that cell
\* had written it; bU changes nowhere but in a momentum assembly, and when a momentum
\* assembly ends every interior element has been written by it
C9_SeedThenAssembled ==
    /\ [](\E seed \in {Val(FAdd(FDiv(FMul(rho(T_init(variant)), dz), dt(variant)),
                                FDiv(FMul(IntF(2), mu(T_init(variant))), dz)))} :
            BeforeFirstAssembly =>
                /\ \A i \in Idx : bU[i] = seed \/ (i \in Interior /\ wpc[i] = "done")
                /\ \A i \in Interior : \A j \in DOMAIN seen[i] :
                       seen[i][j] = seed \/ (j \in Interior /\ wpc[j] = "done"))
    /\ [][/\ bU' # bU => pc = "AssembleMomentum"
          /\ pc = "AssembleMomentum" /\ pc' # pc => \A i \in Interior : wpc[i] = "done"]_vars

\* in the first momentum loop an iteration has read the seed next to an element that has
\* been written
C9_Witness ==
    /\ BeforeFirstAssembly
    /\ pc = "AssembleMomentum"
    /\ wpc[1] = "done"
    /\ wpc[2] = "read"
    /\ 3 \in DOMAIN seen[2]

\* C10: from the end of a momentum assembly to the start of the next one no step
\* changes bU: not the momentum solve, not the continuity assemblies and solves, not
\* the updates of the fields, not the test of the residual, not the temperature stages,
\* not the output
C10_bUFrame == [][pc # "AssembleMomentum" => bU' = bU]_vars

\* the second corrector of an iteration is about to use a bU that the momentum assembly
\* of that iteration has changed
C10_Witness == pc = "UpdateFields" /\ piso = 1 /\ bU # bU_prev /\ IsFiniteVec(bU)

(***************************************************************************)
(* Exact arithmetic on finite numbers: a term is (-1)^sgn * man * 2^ex,    *)
(* and a sum of terms is computed as an integer multiple of 2^e for the    *)
(* lowest exponent e of its terms.                                         *)
(***************************************************************************)
Product(x, y) == [sgn |-> (x.sgn + y.sgn) % 2, man |-> x.man * y.man, ex |-> x.ex + y.ex]
Opposite(x) == [sgn |-> 1 - x.sgn, man |-> x.man, ex |-> x.ex]
Magnitude(x) == [sgn |-> 0, man |-> x.man, ex |-> x.ex]

LowExp(ts) ==
    LET es == {ts[j].ex : j \in {n \in DOMAIN ts : ts[n].man # 0}}
    IN  IF es = {} THEN 0 ELSE CHOOSE e \in es : \A f \in es : e <= f

Units(t, e) == IF t.man = 0 THEN 0 ELSE t.man * Pow2(t.ex - e)

RECURSIVE SignedUnits(_, _)
SignedUnits(ts, e) ==
    IF ts = <<>> THEN 0
    ELSE (IF Head(ts).sgn = 1 THEN 0 - Units(Head(ts), e) ELSE Units(Head(ts), e))
             + SignedUnits(Tail(ts), e)

\* the sum of the terms and the sum of their magnitudes, in units of 2^LowExp(ts)
Sum(ts) == SignedUnits(ts, LowExp(ts))
SumOfMagnitudes(ts) == SignedUnits([j \in DOMAIN ts |-> Magnitude(ts[j])], LowExp(ts))

Abs(n) == IF n < 0 THEN 0 - n ELSE n

\* the terms of a[i]*x[i-1] + b[i]*x[i] + c[i]*x[i+1] - d[i]; a[0] and c[n-1] lie outside
\* the matrix
RowTerms(s, x, i) ==
    (IF i - 1 \in DOMAIN s.b THEN <<Product(s.a[i], x[i - 1])>> ELSE <<>>)
        \o <<Product(s.b[i], x[i])>>
        \o (IF i + 1 \in DOMAIN s.b THEN <<Product(s.c[i], x[i + 1])>> ELSE <<>>)
        \o <<Opposite(s.d[i])>>

\* |b[i]| > |a[i]| + |c[i]| in every row
StrictlyDominant(s) ==
    \A i \in DOMAIN s.b :
        Sum(<<Magnitude(s.b[i])>>
                \o (IF i - 1 \in DOMAIN s.b THEN <<Opposite(Magnitude(s.a[i]))>> ELSE <<>>)
                \o (IF i + 1 \in DOMAIN s.b THEN <<Opposite(Magnitude(s.c[i]))>> ELSE <<>>)) > 0

IsBoundaryValue(x, v) == FEq(x, v)

Changes(unew, uprev) == {Val(FAbs(FSub(unew[i], uprev[i]))) : i \in Interior}

\* m is the maximum of the set ds of numbers
IsMaximum(m, ds) == m \in ds /\ \A d \in ds : fle(d, m)

C12_FiniteUpdates ==
    [][pc = "UpdateFields" /\ IsFiniteVec(u') => IsMaximum(maxErr', Changes(u', u))]_vars

\* the numbers of a piece of the output file, in the order of their writing
Numbers(f) == SelectSeq(f, LAMBDA t : t.num # <<>>)

\* C13: during every timestep before the last one nothing is written to the output
\* file, and the last timestep writes the velocity, the pressure and the temperature
\* profile once each, in that order, each with N values
C13_AsStated ==
    [][pc = "Output" =>
          IF it < t_iter - 1
          THEN fout' = fout
          ELSE \E w \in {SubSeq(fout', Len(fout) + 1, Len(fout'))} :
                   /\ fout' = fout \o w
                   /\ Numbers(w) = Numbers(Profile(u) \o Profile(p) \o Profile(T))]_vars

\* the part of C13 on the last timestep, and what the earlier timesteps write instead
C13_SeparatorsEveryTimestep ==
    [][pc = "Output" =>
          /\ Numbers(fout') = (IF it < t_iter - 1 THEN <<>> ELSE Numbers(Profile(u) \o Profile(p) \o Profile(T)))
          /\ it < t_iter - 1 => fout' = fout \o <<Str("\n\n"), Str("\n\n")>>]_vars

\* C14: a call of a property function prints the warning exactly when its argument is
\* strictly below the solidification temperature, and returns a value in both cases
C14_AsStated ==
    pc = "Returned" => /\ sol.warning <=> flt(sys.T, Val(Tsolid))
                       /\ sol.value.cls \in {"fin", "inf", "nan"}

\* C14 for the functions that have the test
C14_FloorTestWhereCoded ==
    pc = "Returned" /\ variant = "PISO_cpp" => /\ sol.warning <=> flt(sys.T, Val(Tsolid))
                                                /\ sol.value.cls \in {"fin", "inf", "nan"}

\* the coefficients of the pressure-correction system compare equal, x == y
SameCoefficient(x, y) == FEq(x, y)

SameFlux(x, y) == feq(x, y) \/ (IsNaN(x) /\ IsNaN(y))

D_l_viscous(i) == FDiv(FMul(Half, FAdd(mu(T[i]), mu(T[i - 1]))), dz)
D_r_viscous(i) == FDiv(FMul(Half, FAdd(mu(T[i]), mu(T[i + 1]))), dz)

\* C17: the iteration of an interior cell of the momentum loop writes aU[i], cU[i]
\* and bU[i] with the conductance of each face equal to the mean of the viscosities
\* of the two cells at the face divided by dz
C17_AsStated ==
    [][\A i \in Interior :
           pc = "AssembleMomentum" /\ wpc[i] = "read" /\ wpc'[i] = "done" =>
               \E c \in {Vals([F_l |-> MomentumCell(i, seen[i], Zero(0)).F_l,
                               F_r |-> MomentumCell(i, seen[i], Zero(0)).F_r,
                               D_l |-> D_l_viscous(i),
                               D_r |-> D_r_viscous(i),
                               rho_P |-> rho(T[i]),
                               mu_P |-> mu(T[i])])} :
                   /\ aU'[i] = Val(FSub(FNeg(FMax(c.F_l, Zero(0))), c.D_l))
                   /\ cU'[i] = Val(FSub(FMax(FNeg(c.F_r), Zero(0)), c.D_r))
                   /\ \E absu \in abs_outcomes(u[i]) :
                          bU'[i] = Val(FAdd(FAdd(FAdd(FAdd(FAdd(FSub(FMax(c.F_r, Zero(0)),
                                                                     FMax(FNeg(c.F_l), Zero(0))),
                                                                FDiv(FMul(c.rho_P, dz), dt(variant))),
                                                           c.D_l),
                                                      c.D_r),
                                                 FMul(FDiv(c.mu_P, K), dz)),
                                            FMul(FDiv(FMul(FMul(CF, c.mu_P), dz), FSqrt(K)), absu)))]_vars

\* C18: after every solve of the temperature system the temperature of the first
\* node is the inlet temperature and the temperature of the last node is the outlet
\* temperature
C18_AsStated ==
    [][pc = "SolveEnergy" => FEq(T'[0], T_inlet) /\ FEq(T'[N - 1], T_outlet)]_vars

\* what the boundary rows of each program give instead for a finite solution: the
\* temperatures of the neighbours in src/PISO.cpp, the configured ones in part_000
C18_BoundaryRows ==
    [][pc = "SolveEnergy" /\ IsFiniteVec(T') =>
           IF variant = "PISO_cpp"
           THEN T'[0] = T'[1] /\ T'[N - 1] = T'[N - 2]
           ELSE FEq(T'[0], T_inlet) /\ FEq(T'[N - 1], T_outlet)]_vars

\* C19: in the loop of the SIMPLEC program that assembles the pressure correction,
\* whatever the interleaving of the iterations, the dP[ix] that the iteration of a
\* cell has stored is the one computed from the rhiechow and the dudx of that cell
C19_AsStated ==
    \A ix \in Inner :
        pc = "PressureCorrection" /\ wpc[ix] = "done" =>
            dP[ix] = Val(dP_SIMPLEC(ix, dudx(ix, rhiechow(ix, sys.b))))

C20_FiniteCorrections ==
    [][/\ pc = "SolveContinuity" /\ IsFiniteVec(p_prime') =>
              FEq(p_prime'[N - 1], Zero(0)) /\ FEq(p_prime'[0], p_prime'[1])
       /\ pc = "UpdateFields" /\ IsFiniteVec(p_prime) =>
              FEq(p'[N - 1], p_outlet) /\ FEq(p'[0], p'[1])]_vars

\* the stages from the backup of a timestep to its solve of the temperature system
BeforeEnergySolve ==
    pc \in {"CheckResidual", "AssembleMomentum", "SolveMomentum", "AssembleContinuity", "SolveContinuity",
            "UpdateFields", "AssembleEnergy", "SolveEnergy"}

\* C21: no stage but the solve of the temperature system writes T, and in the program
\* that keeps the backup T_old, from the backup of a timestep to its solve of the
\* temperature system T holds the values of T_old in every cell
C21_TemperatureFrame ==
    /\ [][pc # "SolveEnergy" => T' = T]_vars
    /\ [](variant = "PISO_cpp" /\ BeforeEnergySolve => T = T_old)

\* the inner loop of a later timestep has run on a temperature that the solve of the
\* timestep before had changed
C21_Witness ==
    /\ variant = "PISO_cpp"
    /\ pc = "AssembleEnergy"
    /\ it > 0 /\ iter > 0
    /\ T = T_old
    /\ \E c \in {Vals([T |-> T_init(variant)])} : T # Vec(c.T)

\* an access falls inside its array
InBounds(a, size) ==
    IF a[1] = "p_padded" THEN a[2] + 1 \in 0..(size["p_storage"] - 1)
    ELSE a[2] \in 0..(size[a[1]] - 1)

\* C22: for every number of nodes from 3 on, every access of every region of a timestep
\* falls inside its array, the subscripts i - 2 to i + 2 of p_padded inside the N + 2
\* elements of p_storage, and the arrays of one element for each node keep N elements,
\* the ones replaced by the result of a solve included
C22_InBounds ==
    /\ \A a \in sol : InBounds(a, sys.size)
    /\ \A a \in PerCell : sys.size[a] = sys.N
    /\ sys.size["p_storage"] = sys.N + 2

\* on the smallest grid the iteration of the only interior cell has reached both ghost
\* nodes, after the velocity has been replaced by the result of a solve
C22_Witness ==
    /\ sys.N = 3
    /\ Regions[sys.region] = "continuity_rows"
    /\ <<"p_padded", -1>> \in sol /\ <<"p_padded", 3>> \in sol

\* the fluxes of the two faces of every interior cell and its mass imbalance, as the
\* continuity loop computes them from the fields
FaceFluxes ==
    [i \in Interior |-> Vals([l |-> ContinuityCell(i).mdot_l_star,
                              r |-> ContinuityCell(i).mdot_r_star,
                              m |-> ContinuityCell(i).mass_imbalance,
                              dz |-> dz])]

IsFiniteFluxes(c) == \A i \in Interior : IsFinite(c[i].l) /\ IsFinite(c[i].r) /\ IsFinite(c[i].m)

\* the mass imbalances of the interior cells, the flux through the right face of the
\* last one taken off and the flux through the left face of the first one added;
\* each imbalance is multiplied by scale
Telescope(c, scale) ==
    [i \in 1..(N - 2) |-> Product(scale, c[i].m)] \o <<Opposite(c[N - 2].r), c[1].l>>

\* C23 as stated: in every assembled continuity system the flux of the right face of
\* an interior cell equals the flux of the left face of the next one, and the sum of
\* the mass imbalances of the interior cells equals the flux through the right face of
\* cell N-2 minus the flux through the left face of cell 1
C23_AsStated ==
    pc = "SolveContinuity" /\ IsFiniteFluxes(FaceFluxes) =>
        \E c \in {FaceFluxes} :
            /\ \A i \in 1..(N - 3) : feq(c[i].r, c[i + 1].l)
            /\ Sum(Telescope(c, Val(One))) = 0

\* C23: in every assembled continuity system the flux of the right face of an interior
\* cell and the flux of the left face of the next one are the same value, equal or both
\* NaN; and when the fluxes are finite the sum of the mass imbalances of the interior
\* cells, multiplied by dz in part_000 where each imbalance is divided by dz, is the flux
\* through the right face of cell N-2 minus the flux through the left face of cell 1 up
\* to the rounding of the arithmetic: they differ by at most 2^(2 - MantBits) times the
\* sum of the magnitudes of the imbalances and the two fluxes
C23_SharedFaces ==
    pc = "SolveContinuity" =>
        \E c \in {FaceFluxes} :
            /\ \A i \in 1..(N - 3) : SameFlux(c[i].r, c[i + 1].l)
            /\ IsFiniteFluxes(c) =>
                   \E ts \in {Telescope(c, IF variant = "PISO_cpp" THEN Val(One) ELSE c[1].dz)} :
                       Abs(Sum(ts)) * Pow2(MantBits - 2) <= SumOfMagnitudes(ts)

\* a continuity system has been assembled from finite fluxes that differ from the
\* first face to the last one
C23_Witness ==
    /\ pc = "SolveContinuity"
    /\ \E c \in {FaceFluxes} :
           /\ IsFiniteFluxes(c)
           /\ ~feq(c[1].l, c[N - 2].r)
           /\ ~IsZero(c[1].r)
           /\ feq(c[1].r, c[2].l)

\* the sources as the program holds them after the initialisation
Sources == Matrix([Sm |-> Sm, Su |-> Su, St |-> St(variant)])

\* the cells where a source is positive, and those where it is negative
SourceCells(S) == {i \in Idx : flt(Val(Zero(0)), S[i])}
SinkCells(S) == {i \in Idx : flt(S[i], Val(Zero(0)))}

\* C24 as stated: after the initialisation the mass source zone and the mass sink zone
\* have the same number of cells, the energy source zone and the energy sink zone too,
\* and the two boundary cells carry no source
C24_AsStated ==
    \E s \in {Sources} :
        /\ Cardinality(SourceCells(s.Sm)) = Cardinality(SinkCells(s.Sm))
        /\ Cardinality(SourceCells(s.St)) = Cardinality(SinkCells(s.St))
        /\ \A i \in {0, N - 1} : IsZero(s.Sm[i]) /\ IsZero(s.Su[i]) /\ IsZero(s.St[i])
====
